---- MODULE Spec2Model ----
(***************************************************************************)
(* Model of src/index.mjs: the S3 upload handler that scans a new object,  *)
(* and, on a malicious verdict, looks the uploader up in CloudTrail,       *)
(* deletes the object and sends a notification e-mail.                     *)
(*                                                                         *)
(* Strings the code inspects character by character (object keys) are      *)
(* sequences of one-character strings; all other strings are atomic.       *)
(***************************************************************************)
EXTENDS Integers, Sequences, FiniteSets, TLC

\* ------------------------------------------------------------------ bounds
\* Largest number of records in one inbound event.
MaxRecords == 2
\* Largest number of events in one CloudTrail LookupEvents response.
MaxEvents == 2
\* Largest number of times the runtime delivers the same event.
MaxDeliveries == 2

\* Largest number of events in a LookupEvents response where the content of
\* the response is not what is examined.
MaxBriefEvents == 1

\* Largest number of characters before the optional "malicious" of a stored
\* object key.
MaxKeyLen == 2

\* --------------------------------------------------------- program constants
\* startTime.setMinutes(startTime.getMinutes() - 15)
LookbackMinutes == 15
\* statusCode: 200
StatusOK == 200

\* JavaScript's undefined, where a string is expected.
Undefined == "<undefined>"

\* ------------------------------------------------------------------ inputs
\* record.s3.bucket.name of the inbound records, and the bucket of the
\* uploads to other buckets that CloudTrail reports.
Buckets == {"uploads"}
ForeignBucket == "archive"

\* record.s3.object.key as delivered: percent-encoded, '+' for a space.
\*   "malicious"        decodes to "malicious"
\*   "Malicio%55s"      decodes to "MalicioUs"
\*   "mal+icious"       decodes to "mal icious"
EncodedKeys ==
    { <<"m","a","l","i","c","i","o","u","s">>,
      <<"M","a","l","i","c","i","o","%","5","5","s">>,
      <<"m","a","l","+","i","c","i","o","u","s">> }

\* record.eventTime of the inbound records; the times inside audit payloads.
EventTimes == {"2024-01-01T10:00:00Z"}
TrailTime == "2024-01-01T09:59:58Z"
AliceArn == "arn:aws:iam::123:user/alice"
AlicePrincipalId == "AIDAALICE"
AliceIp == "203.0.113.5"
BobArn == "arn:aws:iam::123:user/bob"
BobIp == "198.51.100.7"

\* ----------------------------------------------------------- key decoding
\* key.replace(/\+/g, ' ')
PlusToSpace(s) == [i \in 1..Len(s) |-> IF s[i] = "+" THEN " " ELSE s[i]]

HexChars == {"0","1","2","3","4","5","6","7","8","9",
             "a","b","c","d","e","f","A","B","C","D","E","F"}

HexVal(c) ==
    CASE c = "0" -> 0 [] c = "1" -> 1 [] c = "2" -> 2 [] c = "3" -> 3
      [] c = "4" -> 4 [] c = "5" -> 5 [] c = "6" -> 6 [] c = "7" -> 7
      [] c = "8" -> 8 [] c = "9" -> 9
      [] c \in {"a","A"} -> 10 [] c \in {"b","B"} -> 11
      [] c \in {"c","C"} -> 12 [] c \in {"d","D"} -> 13
      [] c \in {"e","E"} -> 14 [] c \in {"f","F"} -> 15

\* The character of a one-byte escape.  Only the bytes of the modelled
\* alphabet are tabulated; any other byte is one opaque character.
ByteChar(b) ==
    CASE b = 32 -> " " [] b = 37 -> "%" [] b = 43 -> "+" [] b = 47 -> "/"
      [] b = 85 -> "U" [] b = 105 -> "i"
      [] OTHER -> "<other>"

\* What decodeURIComponent throws on a malformed escape.
URIError == <<"<URIError>">>

RECURSIVE PercentDecode(_)
\* decodeURIComponent(s)
PercentDecode(s) ==
    IF s = <<>> THEN <<>>
    ELSE IF Head(s) # "%"
    THEN LET rest == PercentDecode(Tail(s))
         IN  IF rest = URIError THEN URIError ELSE <<Head(s)>> \o rest
    ELSE IF Len(s) < 3 \/ s[2] \notin HexChars \/ s[3] \notin HexChars
    THEN URIError
    ELSE LET rest == PercentDecode(SubSeq(s, 4, Len(s)))
         IN  IF rest = URIError THEN URIError
             ELSE <<ByteChar(16 * HexVal(s[2]) + HexVal(s[3]))>> \o rest

\* DecodeKey without the replacement of '+' by a space.
DecodeKey_PlusKept(encoded) == PercentDecode(encoded)

\* decodeURIComponent(record.s3.object.key.replace(/\+/g, ' '))
DecodeKey(encoded) == PercentDecode(PlusToSpace(encoded))

DecodedKeys == {DecodeKey(k) : k \in EncodedKeys}

\* The encoding of object keys in upload events: a space becomes '+', and
\* '+' and '%' become percent escapes; other characters of the modelled
\* alphabet are kept.
EncodeChar(c) ==
    CASE c = " " -> <<"+">>
      [] c = "+" -> <<"%", "2", "B">>
      [] c = "%" -> <<"%", "2", "5">>
      [] OTHER -> <<c>>

RECURSIVE EncodeKey(_)
EncodeKey(s) == IF s = <<>> THEN <<>> ELSE EncodeChar(Head(s)) \o EncodeKey(Tail(s))

\* ------------------------------------------------------------- the scanner
UpperLetters == <<"A","B","C","D","E","F","G","H","I","J","K","L","M",
                  "N","O","P","Q","R","S","T","U","V","W","X","Y","Z">>
LowerLetters == <<"a","b","c","d","e","f","g","h","i","j","k","l","m",
                  "n","o","p","q","r","s","t","u","v","w","x","y","z">>

ToLowerChar(c) ==
    IF \E i \in 1..Len(UpperLetters) : UpperLetters[i] = c
    THEN LowerLetters[CHOOSE i \in 1..Len(UpperLetters) : UpperLetters[i] = c]
    ELSE c

\* key.toLowerCase()
ToLowerCase(s) == [i \in 1..Len(s) |-> ToLowerChar(s[i])]

\* s.includes(sub)
Includes(s, sub) ==
    \E i \in 1..(Len(s) - Len(sub) + 1) : SubSeq(s, i, i + Len(sub) - 1) = sub

Needle == <<"m","a","l","i","c","i","o","u","s">>

MaliciousDetails == "Simulated detection: EICAR Test File"
CleanDetails == "Scan complete. No threats found."

\* The verdict scanWithCrowdstrike resolves with.
scanWithCrowdstrike(b, k) ==
    IF Includes(ToLowerCase(k), Needle)
    THEN [isMalicious |-> TRUE, details |-> MaliciousDetails]
    ELSE [isMalicious |-> FALSE, details |-> CleanDetails]

\* The errors a scan request can reject with.
ScanErrors == {"ScanUnavailable", "ScanTimeout"}

\* ------------------------------------------------- CloudTrail correlation
\* One entry of Events.  parses: JSON.parse(event.CloudTrailEvent) returns an
\* object (FALSE: it throws).  A field that is absent from the payload has
\* present = FALSE, or the value Undefined.
TrailEvent(parses, rp, ui, ip, t) ==
    [parses |-> parses, requestParameters |-> rp, userIdentity |-> ui,
     sourceIPAddress |-> ip, eventTime |-> t]

NoParams == [present |-> FALSE, bucketName |-> Undefined, key |-> <<>>]
Params(b, k) == [present |-> TRUE, bucketName |-> b, key |-> k]

NoIdentity == [present |-> FALSE, arn |-> Undefined, principalId |-> Undefined]
Identity(arn, pid) == [present |-> TRUE, arn |-> arn, principalId |-> pid]

UserIdentities ==
    { NoIdentity,
      Identity(Undefined, Undefined),
      Identity(AliceArn, Undefined),
      Identity(Undefined, AlicePrincipalId),
      Identity(AliceArn, AlicePrincipalId) }

OtherBucket(b) == CHOOSE x \in Buckets \cup {ForeignBucket} : x # b
OtherKey(k) == CHOOSE x \in DecodedKeys : x # k

\* The audit events a lookup for uploads of (b, k) can return: an unparsable
\* payload, one without requestParameters, uploads of other objects, and
\* uploads of (b, k) with each of the identity fields present or absent.
TrailEvents(b, k) ==
    { TrailEvent(FALSE, NoParams, NoIdentity, Undefined, Undefined),
      TrailEvent(TRUE, NoParams, Identity(AliceArn, AlicePrincipalId), AliceIp, TrailTime),
      TrailEvent(TRUE, Params(OtherBucket(b), k), Identity(AliceArn, AlicePrincipalId), AliceIp, TrailTime),
      TrailEvent(TRUE, Params(b, OtherKey(k)), Identity(AliceArn, AlicePrincipalId), AliceIp, TrailTime) }
    \cup { TrailEvent(TRUE, Params(b, k), ui, AliceIp, TrailTime) : ui \in UserIdentities }
    \cup { TrailEvent(TRUE, Params(b, k), Identity(AliceArn, Undefined), Undefined, TrailTime),
           TrailEvent(TRUE, Params(b, k), Identity(AliceArn, Undefined), AliceIp, Undefined) }

SeqsUpTo(S, n) == UNION { [1..m -> S] : m \in 0..n }

\* What cloudTrailClient.send(command) settles with: a rejection, a response
\* without an Events list, or a response with a list of events.
LookupResponse(rejected, error, hasEvents, events) ==
    [rejected |-> rejected, error |-> error, hasEvents |-> hasEvents, Events |-> events]

ResponsesOver(payloads, n) ==
    { LookupResponse(TRUE, "AuditQueryFailed", FALSE, <<>>),
      LookupResponse(FALSE, "none", FALSE, <<>>) }
    \cup { LookupResponse(FALSE, "none", TRUE, evs) : evs \in SeqsUpTo(payloads, n) }

LookupResponsesUpTo(b, k, n) == ResponsesOver(TrailEvents(b, k), n)

LookupResponses(b, k) == LookupResponsesUpTo(b, k, MaxEvents)

\* The responses of at most MaxBriefEvents events.
BriefResponses(b, k) == LookupResponsesUpTo(b, k, MaxBriefEvents)

\* a || b
JsOr(a, b) == IF a \in {Undefined, ""} THEN b ELSE a

UploadDetails(user, ip, t) == [user |-> user, ipAddress |-> ip, uploadTime |-> t]

\* The defaults returned when the event is not found.
Sentinel(evTime) == UploadDetails("Not Found (CloudTrail Latency)", "Not Found", evTime)

\* The handler's uploadDetails before correlation has run.
NoDetails == UploadDetails("", "", "")

\* Matches with the bucket comparison lost.
Matches_KeyOnly(e, b, k) ==
    /\ e.requestParameters.present
    /\ e.requestParameters.key = k

\* requestParams && requestParams.bucketName === bucket && requestParams.key === key
Matches(e, b, k) ==
    /\ e.requestParameters.present
    /\ e.requestParameters.bucketName = b
    /\ e.requestParameters.key = k

\* The object returned for a matching event.
DetailsOf(e) ==
    UploadDetails(JsOr(e.userIdentity.arn, e.userIdentity.principalId),
                  e.sourceIPAddress, e.eventTime)

RECURSIVE FindUpload_SkipsBadEvents(_, _, _, _)
\* FindUpload with a try/catch around each event: an event that cannot be
\* processed is skipped and the search goes on.
FindUpload_SkipsBadEvents(events, i, b, k) ==
    IF i > Len(events)
    THEN [kind |-> "none", value |-> NoDetails, error |-> "none"]
    ELSE LET e == events[i]
         IN  IF e.parses /\ Matches(e, b, k) /\ e.userIdentity.present
             THEN [kind |-> "return", value |-> DetailsOf(e), error |-> "none"]
             ELSE FindUpload_SkipsBadEvents(events, i + 1, b, k)

\* FindUpload that keeps searching after a match and returns the last one.
FindUpload_LastMatch(events, i, b, k) ==
    LET rest == i..Len(events)
        hits == {j \in rest : events[j].parses /\ Matches(events[j], b, k)}
        last == CHOOSE j \in hits : \A h \in hits : h <= j
    IN  IF \E j \in rest : ~events[j].parses
        THEN [kind |-> "throw", value |-> NoDetails, error |-> "SyntaxError"]
        ELSE IF hits = {}
        THEN [kind |-> "none", value |-> NoDetails, error |-> "none"]
        ELSE IF ~events[last].userIdentity.present
        THEN [kind |-> "throw", value |-> NoDetails, error |-> "TypeError"]
        ELSE [kind |-> "return", value |-> DetailsOf(events[last]), error |-> "none"]

RECURSIVE FindUpload(_, _, _, _)
\* The for loop over Events from index i on: it returns the details of a
\* matching event ("return"), throws ("throw"), or runs off the end ("none").
FindUpload(events, i, b, k) ==
    IF i > Len(events)
    THEN [kind |-> "none", value |-> NoDetails, error |-> "none"]
    ELSE LET e == events[i]
         IN  IF ~e.parses
             THEN [kind |-> "throw", value |-> NoDetails, error |-> "SyntaxError"]
             ELSE IF Matches(e, b, k)
             THEN IF ~e.userIdentity.present
                  THEN [kind |-> "throw", value |-> NoDetails, error |-> "TypeError"]
                  ELSE [kind |-> "return", value |-> DetailsOf(e), error |-> "none"]
             ELSE FindUpload(events, i + 1, b, k)

\* The body of the try block, given what the lookup settled with.
TryLookup(resp, b, k) ==
    IF resp.rejected
    THEN [kind |-> "throw", value |-> NoDetails, error |-> resp.error]
    ELSE IF ~resp.hasEvents
    THEN [kind |-> "throw", value |-> NoDetails, error |-> "TypeError"]
    ELSE FindUpload(resp.Events, 1, b, k)

\* getUploadDetailsFromCloudTrail without its catch block.
getUploadDetailsFromCloudTrail_NoCatch(resp, b, k, evTime) ==
    LET t == TryLookup(resp, b, k)
    IN  IF t.kind = "return"
        THEN [kind |-> "return", value |-> t.value, logged |-> "none", error |-> "none"]
        ELSE IF t.kind = "none"
        THEN [kind |-> "return", value |-> Sentinel(evTime), logged |-> "none", error |-> "none"]
        ELSE [kind |-> "throw", value |-> NoDetails, logged |-> "none", error |-> t.error]

\* getUploadDetailsFromCloudTrail(bucket, key, eventTime), given what the
\* lookup settles with.  kind "return": value is the object returned and
\* logged the error console.error printed ("none": nothing); kind "throw":
\* error escapes to the caller.
getUploadDetailsFromCloudTrail(resp, b, k, evTime) ==
    LET t == TryLookup(resp, b, k)
    IN  IF t.kind = "return"
        THEN [kind |-> "return", value |-> t.value, logged |-> "none", error |-> "none"]
        ELSE [kind |-> "return", value |-> Sentinel(evTime), logged |-> t.error, error |-> "none"]

\* new LookupEventsCommand({...}): PutObject events of the 15 minutes up to
\* eventTime.
LookupEventsCommand(evTime) ==
    [op |-> "audit", AttributeKey |-> "EventName", AttributeValue |-> "PutObject",
     StartTime |-> [of |-> evTime, minusMinutes |-> LookbackMinutes],
     EndTime |-> evTime]

\* ---------------------------------------------------------------- handler
VARIABLES
    event,          \* the inbound event: [Records |-> <<record, ...>>]
    objects,        \* the objects in storage: <<bucket, key>> pairs
    delivery,       \* how many times the event has been delivered
    pc,             \* where the current invocation stands
    bucket,         \* the handler's const bucket
    key,            \* the handler's const key
    eventTime,      \* the handler's const eventTime
    scanResult,     \* the handler's const scanResult
    uploadDetails,  \* the handler's const uploadDetails
    calls,          \* the requests this invocation has sent, in order
    replies,        \* what they settled with, in order
    logged,         \* what console.error has printed in this invocation
    result,         \* the value the invocation resolved with
    thrown,         \* the error the invocation rejected with
    other           \* the locals of a second invocation, suspended at an await

vars == <<other, event, objects, delivery, pc, bucket, key, eventTime, scanResult,
          uploadDetails, calls, replies, logged, result, thrown>>

S3Record(b, k, t) ==
    [eventTime |-> t, s3 |-> [bucket |-> [name |-> b], object |-> [key |-> k]]]

S3Records == { S3Record(b, k, t) : b \in Buckets, k \in EncodedKeys, t \in EventTimes }

NoScan == [isMalicious |-> FALSE, details |-> ""]
NoResult == [statusCode |-> 0, body |-> [message |-> "", status |-> ""]]

\* The locals of one invocation.
Run(ev, d, p, b, k, t, sr, ud, cs, rs, lg, res, th) ==
    [event |-> ev, delivery |-> d, pc |-> p, bucket |-> b, key |-> k, eventTime |-> t,
     scanResult |-> sr, uploadDetails |-> ud, calls |-> cs, replies |-> rs,
     logged |-> lg, result |-> res, thrown |-> th]

\* An invocation that has been received and has not started.
FreshRun(ev) ==
    Run(ev, 1, "Start", "", <<>>, "", NoScan, NoDetails, <<>>, <<>>, <<>>, NoResult, "none")

\* No second invocation.
NoOther ==
    Run([Records |-> <<>>], 0, "None", "", <<>>, "", NoScan, NoDetails, <<>>, <<>>, <<>>,
        NoResult, "none")

\* DeleteObjectCommand aimed at the lower-cased key the scanner matched on.
DeleteObjectCommand_Lowercased(b, k) == [op |-> "delete", Bucket |-> b, Key |-> ToLowerCase(k)]

\* new DeleteObjectCommand({ Bucket: bucket, Key: key })
DeleteObjectCommand(b, k) == [op |-> "delete", Bucket |-> b, Key |-> k]

\* SendEmailCommand with the uploader and the source IP interchanged.
SendEmailCommand_SwappedIdentity(b, k, sr, ud) ==
    [op |-> "notify", subject |-> "[SECURITY ALERT] Malicious File Deleted from S3",
     bucket |-> b, fileName |-> k, scanDetails |-> sr.details,
     uploaderPrincipal |-> ud.ipAddress, sourceIp |-> ud.user,
     uploadTimestamp |-> ud.uploadTime]

\* new SendEmailCommand({...}): the values interpolated into the body.
SendEmailCommand(b, k, sr, ud) ==
    [op |-> "notify", subject |-> "[SECURITY ALERT] Malicious File Deleted from S3",
     bucket |-> b, fileName |-> k, scanDetails |-> sr.details,
     uploaderPrincipal |-> ud.user, sourceIp |-> ud.ipAddress,
     uploadTimestamp |-> ud.uploadTime]

\* HandlerResult that reports every run as clean.
HandlerResult_AlwaysClean(sr) ==
    [statusCode |-> StatusOK, body |-> [message |-> "Scan complete.", status |-> "Clean"]]

\* The value the handler returns.
HandlerResult(sr) ==
    [statusCode |-> StatusOK,
     body |-> [message |-> "Scan complete.",
               status |-> IF sr.isMalicious THEN "Malicious" ELSE "Clean"]]

\* AfterScan with the verdict test lost.
AfterScan_AlwaysCorrelates(sr) == "Correlating"

\* if (scanResult.isMalicious) ... else ...
AfterScan(sr) == IF sr.isMalicious THEN "Correlating" ELSE "Returned"

Init ==
    /\ event \in { [Records |-> rs] : rs \in SeqsUpTo(S3Records, MaxRecords) \ {<<>>} }
    /\ objects = { <<event.Records[i].s3.bucket.name, DecodeKey(event.Records[i].s3.object.key)>> :
                     i \in 1..Len(event.Records) }
    /\ delivery = 1
    /\ pc = "Start"
    /\ bucket = ""
    /\ key = <<>>
    /\ eventTime = ""
    /\ scanResult = NoScan
    /\ uploadDetails = NoDetails
    /\ calls = <<>>
    /\ replies = <<>>
    /\ logged = <<>>
    /\ result = NoResult
    /\ thrown = "none"
    /\ other = NoOther

\* The catch block of the handler: console.error, then throw error.
Rethrow(err) ==
    /\ logged' = Append(logged, [by |-> "handler", error |-> err])
    /\ thrown' = err
    /\ pc' = "Thrown"

\* Invoke that reads the last record of the event instead of the first.
Invoke_LastRecord ==
    /\ pc = "Start"
    /\ LET record == event.Records[Len(event.Records)]
           k == DecodeKey(record.s3.object.key)
       IN  /\ bucket' = record.s3.bucket.name
           /\ key' = k
           /\ eventTime' = record.eventTime
           /\ pc' = "Scanning"
           /\ thrown' = thrown
           /\ calls' = Append(calls, [op |-> "scan", bucket |-> record.s3.bucket.name, key |-> k])
    /\ UNCHANGED <<other, event, objects, delivery, scanResult, uploadDetails, replies, logged, result>>

\* The handler up to its first await: it reads Records[0], decodes the key
\* and starts the scan.
Invoke ==
    /\ pc = "Start"
    /\ LET record == event.Records[1]
           k == DecodeKey(record.s3.object.key)
       IN  /\ bucket' = record.s3.bucket.name
           /\ key' = k
           /\ eventTime' = record.eventTime
           /\ IF k = URIError
              THEN /\ pc' = "Thrown"
                   /\ thrown' = "URIError"
                   /\ calls' = calls
              ELSE /\ pc' = "Scanning"
                   /\ thrown' = thrown
                   /\ calls' = Append(calls, [op |-> "scan", bucket |-> record.s3.bucket.name, key |-> k])
    /\ UNCHANGED <<other, event, objects, delivery, scanResult, uploadDetails, replies, logged, result>>

\* await scanWithCrowdstrike(bucket, key) resolves: a clean verdict returns,
\* a malicious one starts the CloudTrail lookup.
ScanResolves ==
    /\ pc = "Scanning"
    /\ LET sr == scanWithCrowdstrike(bucket, key)
       IN  /\ scanResult' = sr
           /\ replies' = Append(replies, [op |-> "scan", status |-> "ok", isMalicious |-> sr.isMalicious])
           /\ pc' = AfterScan(sr)
           /\ IF AfterScan(sr) = "Correlating"
              THEN /\ calls' = Append(calls, LookupEventsCommand(eventTime))
                   /\ result' = result
              ELSE /\ calls' = calls
                   /\ result' = HandlerResult(sr)
    /\ UNCHANGED <<other, event, objects, delivery, bucket, key, eventTime, uploadDetails, logged, thrown>>

\* ScanRejects with the scan error taken for a clean verdict.
ScanRejects_TreatedAsClean ==
    /\ pc = "Scanning"
    /\ \E err \in ScanErrors :
          replies' = Append(replies, [op |-> "scan", status |-> err])
    /\ result' = HandlerResult([isMalicious |-> FALSE, details |-> CleanDetails])
    /\ pc' = "Returned"
    /\ UNCHANGED <<other, event, objects, delivery, bucket, key, eventTime, scanResult,
                   uploadDetails, calls, logged, thrown>>

\* await scanWithCrowdstrike(bucket, key) rejects.
ScanRejects ==
    /\ pc = "Scanning"
    /\ \E err \in ScanErrors :
          /\ replies' = Append(replies, [op |-> "scan", status |-> err])
          /\ Rethrow(err)
    /\ UNCHANGED <<other, event, objects, delivery, bucket, key, eventTime, scanResult,
                   uploadDetails, calls, result>>

\* LookupSettles that sends the delete and the e-mail together, without
\* waiting for the delete.
LookupSettles_FanOut ==
    /\ pc = "Correlating"
    /\ \E resp \in LookupResponses(bucket, key) :
          LET r == getUploadDetailsFromCloudTrail(resp, bucket, key, eventTime)
          IN  /\ replies' = Append(replies, [op |-> "audit", response |-> resp])
              /\ logged' = IF r.logged = "none" THEN logged
                           ELSE Append(logged, [by |-> "getUploadDetailsFromCloudTrail", error |-> r.logged])
              /\ uploadDetails' = r.value
              /\ calls' = calls \o <<DeleteObjectCommand(bucket, key),
                                     SendEmailCommand(bucket, key, scanResult, r.value)>>
              /\ pc' = "Deleting"
    /\ UNCHANGED <<other, event, objects, delivery, bucket, key, eventTime, scanResult, result, thrown>>

\* cloudTrailClient.send(command) settles with one of the given responses;
\* getUploadDetailsFromCloudTrail runs to its return and the handler sends
\* the delete.
LookupSettlesWith(responses) ==
    /\ pc = "Correlating"
    /\ \E resp \in responses :
          LET r == getUploadDetailsFromCloudTrail(resp, bucket, key, eventTime)
              printed == IF r.logged = "none" THEN logged
                         ELSE Append(logged, [by |-> "getUploadDetailsFromCloudTrail", error |-> r.logged])
          IN  /\ replies' = Append(replies, [op |-> "audit", response |-> resp])
              /\ IF r.kind = "throw"
                 THEN /\ logged' = Append(printed, [by |-> "handler", error |-> r.error])
                      /\ thrown' = r.error
                      /\ pc' = "Thrown"
                      /\ UNCHANGED <<uploadDetails, calls>>
                 ELSE /\ logged' = printed
                      /\ uploadDetails' = r.value
                      /\ calls' = Append(calls, DeleteObjectCommand(bucket, key))
                      /\ pc' = "Deleting"
                      /\ thrown' = thrown
    /\ UNCHANGED <<other, event, objects, delivery, bucket, key, eventTime, scanResult, result>>

\* The lookup settles with any response of up to MaxEvents events.
LookupSettles == LookupSettlesWith(LookupResponses(bucket, key))

\* The lookup settles with a short response.
LookupSettlesBriefly == LookupSettlesWith(BriefResponses(bucket, key))

\* What s3Client.send(deleteCommand) can settle with.  Storage resolves a
\* delete whether or not the object exists; it can reject any delete, and
\* can answer "NotFound" only for an object that is absent.
DeleteReplies(b, k) ==
    {"ok", "AccessDenied"} \cup (IF <<b, k>> \in objects THEN {} ELSE {"NotFound"})

\* DeleteResolves that takes the delete of an absent object for a failure.
DeleteResolves_FailsWhenAbsent ==
    /\ pc = "Deleting"
    /\ replies' = Append(replies, [op |-> "delete", status |-> "ok",
                                   absent |-> <<bucket, key>> \notin objects])
    /\ objects' = objects \ {<<bucket, key>>}
    /\ IF <<bucket, key>> \in objects
       THEN /\ calls' = Append(calls, SendEmailCommand(bucket, key, scanResult, uploadDetails))
            /\ pc' = "Notifying"
            /\ UNCHANGED <<logged, thrown>>
       ELSE /\ calls' = calls
            /\ Rethrow("NoSuchKey")
    /\ UNCHANGED <<other, event, delivery, bucket, key, eventTime, scanResult, uploadDetails, result>>

\* await s3Client.send(deleteCommand) resolves; the handler sends the e-mail.
\* DeleteResolves removing every object of the bucket.
DeleteResolves_EmptiesBucket ==
    /\ pc = "Deleting"
    /\ replies' = Append(replies, [op |-> "delete", status |-> "ok",
                                   absent |-> <<bucket, key>> \notin objects])
    /\ objects' = {o \in objects : o[1] # bucket}
    /\ calls' = Append(calls, SendEmailCommand(bucket, key, scanResult, uploadDetails))
    /\ pc' = "Notifying"
    /\ UNCHANGED <<other, event, delivery, bucket, key, eventTime, scanResult, uploadDetails,
                   logged, result, thrown>>

DeleteResolves ==
    /\ pc = "Deleting"
    /\ replies' = Append(replies, [op |-> "delete", status |-> "ok",
                                   absent |-> <<bucket, key>> \notin objects])
    /\ objects' = objects \ {<<bucket, key>>}
    /\ calls' = Append(calls, SendEmailCommand(bucket, key, scanResult, uploadDetails))
    /\ pc' = "Notifying"
    /\ UNCHANGED <<other, event, delivery, bucket, key, eventTime, scanResult, uploadDetails,
                   logged, result, thrown>>

\* DeleteRejects with the error swallowed: the handler goes on to notify.
DeleteRejects_Swallowed ==
    /\ pc = "Deleting"
    /\ \E err \in DeleteReplies(bucket, key) \ {"ok"} :
          replies' = Append(replies, [op |-> "delete", status |-> err,
                                      absent |-> <<bucket, key>> \notin objects])
    /\ calls' = Append(calls, SendEmailCommand(bucket, key, scanResult, uploadDetails))
    /\ pc' = "Notifying"
    /\ UNCHANGED <<other, event, objects, delivery, bucket, key, eventTime, scanResult,
                   uploadDetails, logged, result, thrown>>

\* DeleteRejects that sends the delete a second time before giving up.
DeleteRejects_RetriesOnce ==
    /\ pc = "Deleting"
    /\ \E err \in DeleteReplies(bucket, key) \ {"ok"} :
          /\ replies' = Append(replies, [op |-> "delete", status |-> err,
                                         absent |-> <<bucket, key>> \notin objects])
          /\ IF Len(SelectSeq(calls, LAMBDA c : c.op = "delete")) < 2
             THEN /\ calls' = Append(calls, DeleteObjectCommand(bucket, key))
                  /\ UNCHANGED <<pc, logged, thrown>>
             ELSE /\ calls' = calls
                  /\ Rethrow(err)
    /\ UNCHANGED <<other, event, objects, delivery, bucket, key, eventTime, scanResult,
                   uploadDetails, result>>

\* await s3Client.send(deleteCommand) rejects.
DeleteRejects ==
    /\ pc = "Deleting"
    /\ \E err \in DeleteReplies(bucket, key) \ {"ok"} :
          /\ replies' = Append(replies, [op |-> "delete", status |-> err,
                                         absent |-> <<bucket, key>> \notin objects])
          /\ Rethrow(err)
    /\ UNCHANGED <<other, event, objects, delivery, bucket, key, eventTime, scanResult,
                   uploadDetails, calls, result>>

\* await sesClient.send(emailCommand) resolves; the handler returns.
NotifyResolves ==
    /\ pc = "Notifying"
    /\ replies' = Append(replies, [op |-> "notify", status |-> "ok"])
    /\ result' = HandlerResult(scanResult)
    /\ pc' = "Returned"
    /\ UNCHANGED <<other, event, objects, delivery, bucket, key, eventTime, scanResult,
                   uploadDetails, calls, logged, thrown>>

\* NotifyRejects with the error swallowed: the handler returns its result.
NotifyRejects_Swallowed ==
    /\ pc = "Notifying"
    /\ replies' = Append(replies, [op |-> "notify", status |-> "MessageRejected"])
    /\ logged' = Append(logged, [by |-> "handler", error |-> "MessageRejected"])
    /\ result' = HandlerResult(scanResult)
    /\ pc' = "Returned"
    /\ UNCHANGED <<other, event, objects, delivery, bucket, key, eventTime, scanResult,
                   uploadDetails, calls, thrown>>

\* NotifyRejects that hands out the result and then throws as well.
NotifyRejects_ReturnsAndThrows ==
    /\ pc = "Notifying"
    /\ replies' = Append(replies, [op |-> "notify", status |-> "MessageRejected"])
    /\ result' = HandlerResult(scanResult)
    /\ Rethrow("MessageRejected")
    /\ UNCHANGED <<other, event, objects, delivery, bucket, key, eventTime, scanResult,
                   uploadDetails, calls>>

\* await sesClient.send(emailCommand) rejects.
NotifyRejects ==
    /\ pc = "Notifying"
    /\ replies' = Append(replies, [op |-> "notify", status |-> "MessageRejected"])
    /\ Rethrow("MessageRejected")
    /\ UNCHANGED <<other, event, objects, delivery, bucket, key, eventTime, scanResult,
                   uploadDetails, calls, result>>

\* The runtime delivers the same event again: a fresh invocation of handler.
Redeliver ==
    /\ pc \in {"Returned", "Thrown"}
    /\ delivery < MaxDeliveries
    /\ delivery' = delivery + 1
    /\ pc' = "Start"
    /\ bucket' = ""
    /\ key' = <<>>
    /\ eventTime' = ""
    /\ scanResult' = NoScan
    /\ uploadDetails' = NoDetails
    /\ calls' = <<>>
    /\ replies' = <<>>
    /\ logged' = <<>>
    /\ result' = NoResult
    /\ thrown' = "none"
    /\ UNCHANGED <<other, event, objects>>

Next ==
    \/ Invoke
    \/ ScanResolves
    \/ ScanRejects
    \/ LookupSettles
    \/ DeleteResolves
    \/ DeleteRejects
    \/ NotifyResolves
    \/ NotifyRejects
    \/ Redeliver

Spec == Init /\ [][Next]_vars

\* The characters of stored object keys: a plain one, a space, the two that
\* the encoding escapes, and a digit that can follow a '%'.
KeyAlphabet == {"a", " ", "+", "%", "2"}

\* The stored object keys: up to MaxKeyLen characters, alone or followed by
\* "malicious".
StoredKeys ==
    { p \o q : p \in SeqsUpTo(KeyAlphabet, MaxKeyLen), q \in {<<>>, Needle} } \ {<<>>}

\* One object is stored under some key and its upload event is delivered
\* once, with the key encoded.
InitDecode ==
    /\ \E b \in Buckets, s \in StoredKeys, t \in EventTimes :
          /\ event = [Records |-> <<S3Record(b, EncodeKey(s), t)>>]
          /\ objects = {<<b, s>>}
    /\ delivery = 1
    /\ pc = "Start"
    /\ bucket = ""
    /\ key = <<>>
    /\ eventTime = ""
    /\ scanResult = NoScan
    /\ uploadDetails = NoDetails
    /\ calls = <<>>
    /\ replies = <<>>
    /\ logged = <<>>
    /\ result = NoResult
    /\ thrown = "none"
    /\ other = NoOther

\* The invocation that is running.
ThisRun ==
    Run(event, delivery, pc, bucket, key, eventTime, scanResult, uploadDetails,
        calls, replies, logged, result, thrown)

\* The running invocation is suspended at an await, or has ended, and the
\* runtime resumes the other one.  Storage is the only state they share.
Switch ==
    /\ other.pc # "None"
    /\ other' = ThisRun
    /\ event' = other.event
    /\ delivery' = other.delivery
    /\ pc' = other.pc
    /\ bucket' = other.bucket
    /\ key' = other.key
    /\ eventTime' = other.eventTime
    /\ scanResult' = other.scanResult
    /\ uploadDetails' = other.uploadDetails
    /\ calls' = other.calls
    /\ replies' = other.replies
    /\ logged' = other.logged
    /\ result' = other.result
    /\ thrown' = other.thrown
    /\ UNCHANGED objects

\* Every request that has been sent eventually resolves or rejects, and an
\* invocation that has been received starts to run; whether the runtime
\* delivers the event again is left open.
HandlerStep ==
    \/ Invoke
    \/ ScanResolves
    \/ ScanRejects
    \/ LookupSettlesBriefly
    \/ DeleteResolves
    \/ DeleteRejects
    \/ NotifyResolves
    \/ NotifyRejects

\* An event of one record.
InitLive == Init /\ Len(event.Records) = 1

NextLive == HandlerStep \/ Redeliver

SpecLive == InitLive /\ [][NextLive]_vars /\ WF_vars(HandlerStep)

\* The handler run once on the event of a stored key.
SpecDecode == InitDecode /\ [][HandlerStep]_vars

\* Two invocations for two different objects.  CloudTrail has recorded the
\* upload of each: the object whose key is "malicious" was uploaded by alice,
\* any other by bob.
UploadOf(record) ==
    LET k == DecodeKey(record.s3.object.key)
    IN  IF k = Needle
        THEN TrailEvent(TRUE, Params(record.s3.bucket.name, k),
                        Identity(AliceArn, AlicePrincipalId), AliceIp, TrailTime)
        ELSE TrailEvent(TRUE, Params(record.s3.bucket.name, k),
                        Identity(BobArn, Undefined), BobIp, TrailTime)

\* A lookup of either invocation returns events of both uploads.
LookupSettlesAmongTwo ==
    LookupSettlesWith(ResponsesOver({UploadOf(event.Records[1]), UploadOf(other.event.Records[1])},
                                    MaxEvents))

InitTwo ==
    /\ \E b \in Buckets, e1 \in EncodedKeys, e2 \in EncodedKeys, t \in EventTimes :
          /\ DecodeKey(e1) # DecodeKey(e2)
          /\ event = [Records |-> <<S3Record(b, e1, t)>>]
          /\ other = FreshRun([Records |-> <<S3Record(b, e2, t)>>])
          /\ objects = {<<b, DecodeKey(e1)>>, <<b, DecodeKey(e2)>>}
    /\ delivery = 1
    /\ pc = "Start"
    /\ bucket = ""
    /\ key = <<>>
    /\ eventTime = ""
    /\ scanResult = NoScan
    /\ uploadDetails = NoDetails
    /\ calls = <<>>
    /\ replies = <<>>
    /\ logged = <<>>
    /\ result = NoResult
    /\ thrown = "none"

NextTwo ==
    \/ Invoke
    \/ ScanResolves
    \/ ScanRejects
    \/ LookupSettlesAmongTwo
    \/ DeleteResolves
    \/ DeleteRejects
    \/ NotifyResolves
    \/ NotifyRejects
    \/ Switch

SpecTwo == InitTwo /\ [][NextTwo]_vars

\* ------------------------------------------------------------ observations
\* The requests of one kind sent in the current invocation.
Sent(op) == SelectSeq(calls, LAMBDA c : c.op = op)
Count(op) == Len(Sent(op))

\* What the requests of the current invocation settled with.
ScanSaid(v) ==
    \E i \in DOMAIN replies :
        replies[i].op = "scan" /\ replies[i].status = "ok" /\ replies[i].isMalicious = v
ScanFailed == \E i \in DOMAIN replies : replies[i].op = "scan" /\ replies[i].status # "ok"
DeleteSucceeded == \E i \in DOMAIN replies : replies[i].op = "delete" /\ replies[i].status = "ok"
DeleteFailed == \E i \in DOMAIN replies : replies[i].op = "delete" /\ replies[i].status # "ok"
DeleteAnswered(st) == \E i \in DOMAIN replies : replies[i].op = "delete" /\ replies[i].status = st
NotifySucceeded == \E i \in DOMAIN replies : replies[i].op = "notify" /\ replies[i].status = "ok"
NotifyFailed == \E i \in DOMAIN replies : replies[i].op = "notify" /\ replies[i].status # "ok"
LookupSettled == \E i \in DOMAIN replies : replies[i].op = "audit"
LookupReply == replies[CHOOSE i \in DOMAIN replies : replies[i].op = "audit"].response

\* The object key that an encoded key of the inbound record stands for.
DecodedKeyOf == [e \in EncodedKeys |-> DecodeKey(e)]
KeyOf(e) == IF e \in EncodedKeys THEN DecodedKeyOf[e] ELSE DecodeKey(e)

\* The record the invocation is about, and the object it names.
TheRecord == event.Records[1]
TheBucket == TheRecord.s3.bucket.name
TheKey == KeyOf(TheRecord.s3.object.key)

\* The sentinel identity, as the specification spells it.
SentinelIdentity ==
    [user |-> "Not Found (CloudTrail Latency)", ipAddress |-> "Not Found",
     uploadTime |-> TheRecord.eventTime]

\* An audit event that reports an upload of the invocation's object.
IsUploadOfObject(e) ==
    /\ e.parses
    /\ e.requestParameters.present
    /\ e.requestParameters.bucketName = TheBucket
    /\ e.requestParameters.key = TheKey

\* Processing event e of the response fails: its payload does not parse, or
\* it is an upload of the object that carries no userIdentity.
ProcessingFails(e) == ~e.parses \/ (IsUploadOfObject(e) /\ ~e.userIdentity.present)

\* The audit query, or the processing of its result, failed: the request was
\* rejected, the response had no event list, or processing failed at an event
\* before any upload of the object was accepted.
AuditFailed(resp) ==
    \/ resp.rejected
    \/ ~resp.hasEvents
    \/ \E i \in DOMAIN resp.Events :
          /\ ProcessingFails(resp.Events[i])
          /\ \A j \in 1..(i - 1) : ~IsUploadOfObject(resp.Events[j])

\* The only errors that end the invocation after correlation are a rejected
\* delete and a rejected notification.
OnlyLaterFailures == pc = "Thrown" => (DeleteFailed \/ NotifyFailed)

\* ------------------------------------------------------------------ claims
\* C1: when the scan says isMalicious = false, the run sends no audit query,
\* no delete and no notification and returns statusCode 200 with status
\* "Clean".
C1_CleanRunTakesNoAction ==
    ScanSaid(FALSE) =>
        /\ Count("audit") = 0 /\ Count("delete") = 0 /\ Count("notify") = 0
        /\ pc = "Returned"
        /\ thrown = "none"
        /\ result = [statusCode |-> 200, body |-> [message |-> "Scan complete.", status |-> "Clean"]]

C1_Witness == ScanSaid(FALSE) /\ pc = "Returned" /\ Count("scan") = 1

\* C2: when the scan says isMalicious = true and both the delete and the
\* notification succeed, the run returns statusCode 200 with status
\* "Malicious", after exactly one delete, of the event's bucket and decoded
\* key, and exactly one notification.
C2_RemediatedRun ==
    (ScanSaid(TRUE) /\ DeleteSucceeded /\ NotifySucceeded) =>
        /\ pc = "Returned"
        /\ result = [statusCode |-> 200, body |-> [message |-> "Scan complete.", status |-> "Malicious"]]
        /\ Count("delete") = 1
        /\ Count("notify") = 1
        /\ Sent("delete")[1].Bucket = TheBucket
        /\ Sent("delete")[1].Key = TheKey

C2_Witness ==
    /\ ScanSaid(TRUE) /\ DeleteSucceeded /\ NotifySucceeded
    /\ TheKey # ToLowerCase(TheKey)
    /\ pc = "Returned"

C4_ScanFailureAborts ==
    ScanFailed =>
        /\ pc = "Thrown"
        /\ thrown \in {"ScanUnavailable", "ScanTimeout"}
        /\ \E i \in DOMAIN replies : replies[i].op = "scan" /\ replies[i].status = thrown
        /\ Count("audit") = 0 /\ Count("delete") = 0 /\ Count("notify") = 0
        /\ result = NoResult

C4_Witness == ScanFailed /\ pc = "Thrown" /\ thrown = "ScanTimeout"

\* C5: when the delete fails after a malicious verdict, the run is aborted
\* with the delete's error thrown to the invoker, no notification is sent and
\* no statusCode 200 result is returned.
C5_DeleteFailureAborts ==
    (ScanSaid(TRUE) /\ DeleteFailed) =>
        /\ pc = "Thrown"
        /\ DeleteAnswered(thrown)
        /\ Count("notify") = 0
        /\ result.statusCode # 200

C5_Witness == ScanSaid(TRUE) /\ DeleteAnswered("AccessDenied") /\ pc = "Thrown"

\* C6: when the audit query succeeds and returns no upload of the event's
\* (bucket, key), the identity is the sentinel with uploadTimestamp equal to
\* the event's eventTime, and the run goes on: the delete is sent, and the
\* notification is sent once the delete has succeeded.
C6_NoMatchGivesSentinel ==
    (/\ LookupSettled
     /\ ~LookupReply.rejected
     /\ \A i \in DOMAIN LookupReply.Events : ~IsUploadOfObject(LookupReply.Events[i])) =>
        /\ uploadDetails = SentinelIdentity
        /\ Count("delete") = 1
        /\ DeleteSucceeded => Count("notify") = 1
        /\ OnlyLaterFailures

C6_Witness ==
    /\ LookupSettled
    /\ ~LookupReply.rejected
    /\ Len(LookupReply.Events) = 2
    /\ \A i \in DOMAIN LookupReply.Events :
          LookupReply.Events[i].parses /\ LookupReply.Events[i].requestParameters.present
            /\ ~IsUploadOfObject(LookupReply.Events[i])
    /\ NotifySucceeded

\* C7: whatever the audit query settles with, correlation does not raise:
\* the delete is sent and the run is not aborted by correlation; and when
\* the audit query or the processing of its result fails, the identity is
\* the sentinel and the failure is logged.
C7_AuditFailureNeverAborts ==
    LookupSettled =>
        /\ Count("delete") = 1
        /\ OnlyLaterFailures
        /\ AuditFailed(LookupReply) =>
              /\ uploadDetails = SentinelIdentity
              /\ \E i \in DOMAIN logged : logged[i].by = "getUploadDetailsFromCloudTrail"

C7_Witness ==
    /\ LookupSettled
    /\ LookupReply.rejected
    /\ DeleteSucceeded

\* C8, as claimed: every identity that correlation returns has its three
\* fields populated; none is undefined.
C8_IdentityFullyPopulated ==
    LookupSettled =>
        /\ uploadDetails.user # Undefined
        /\ uploadDetails.ipAddress # Undefined
        /\ uploadDetails.uploadTime # Undefined

C10_ResultReportsVerdict ==
    /\ result # NoResult => pc = "Returned"
    /\ pc = "Returned" =>
          /\ result.statusCode = 200
          /\ result.body.status = "Malicious" <=> ScanSaid(TRUE)
          /\ result.body.status = "Clean" <=> ScanSaid(FALSE)
    /\ (ScanFailed \/ DeleteFailed) =>
          /\ result = NoResult
          /\ pc = "Thrown"
          /\ thrown # "none"

C10_Witness == pc = "Returned" /\ result.body.status = "Malicious" /\ delivery = 1


\* The kinds of the requests sent so far, in the order they were sent.
CallOrder == [i \in DOMAIN calls |-> calls[i].op]

\* C12: the requests of a run are sent in the order scan, audit query,
\* delete, notify, each only after the one before it has settled: the audit
\* query only after a malicious verdict, the delete only after correlation
\* has returned an identity, the notification only after the delete has
\* succeeded.
C12_CallsInFixedOrder ==
    /\ CallOrder = SubSeq(<<"scan", "audit", "delete", "notify">>, 1, Len(calls))
    /\ Len(replies) <= Len(calls)
    /\ Len(calls) <= Len(replies) + 1
    /\ \A i \in DOMAIN replies : replies[i].op = calls[i].op
    /\ Count("audit") > 0 => ScanSaid(TRUE)
    /\ Count("delete") > 0 => (LookupSettled /\ uploadDetails # NoDetails)
    /\ Count("notify") > 0 => DeleteSucceeded

C12_Witness == Len(calls) = 4 /\ Len(replies) = 4 /\ pc = "Returned"


\* The response holds an upload of the invocation's object.
HasUpload(resp) == \E i \in DOMAIN resp.Events : IsUploadOfObject(resp.Events[i])

\* The first upload of the invocation's object in the response.
FirstUpload(resp) ==
    resp.Events[CHOOSE i \in DOMAIN resp.Events :
                    /\ IsUploadOfObject(resp.Events[i])
                    /\ \A j \in 1..(i - 1) : ~IsUploadOfObject(resp.Events[j])]

\* The identity read off one audit event: the ARN, or the principal ID when
\* there is no ARN; the source IP; the event time.
TakenFrom(e) ==
    [user |-> IF e.userIdentity.arn # Undefined THEN e.userIdentity.arn
              ELSE e.userIdentity.principalId,
     ipAddress |-> e.sourceIPAddress,
     uploadTime |-> e.eventTime]

C14_NoInternalRetry ==
    \A op \in {"scan", "audit", "delete", "notify"} : Count(op) <= 1

C14_Witness ==
    /\ pc = "Thrown"
    /\ NotifyFailed
    /\ AuditFailed(LookupReply)
    /\ \A op \in {"scan", "audit", "delete", "notify"} : Count(op) = 1


\* The invocation is a redelivery and its object had already been deleted
\* when it started.
GoneBeforeRun ==
    /\ delivery > 1
    /\ <<TheBucket, TheKey>> \notin objects
    /\ \A i \in DOMAIN replies :
          (replies[i].op = "delete" /\ replies[i].status = "ok") => replies[i].absent

IdentityFor(resp) ==
    IF HasUpload(resp) /\ ~AuditFailed(resp)
    THEN TakenFrom(FirstUpload(resp))
    ELSE SentinelIdentity

\* C18: the notification of a run carries the event's bucket and decoded key,
\* the details of the run's scan result, and the actor, source IP and upload
\* timestamp of the identity correlation returned in that run: the matched
\* audit event's values, or the sentinel values.
C18_NotificationCarriesRunData ==
    Count("notify") > 0 =>
        LET n == Sent("notify")[1]
            who == IdentityFor(LookupReply)
        IN  /\ n.bucket = TheBucket
            /\ n.fileName = TheKey
            /\ n.scanDetails = "Simulated detection: EICAR Test File"
            /\ n.scanDetails = scanResult.details
            /\ n.uploaderPrincipal = who.user
            /\ n.sourceIp = who.ipAddress
            /\ n.uploadTimestamp = who.uploadTime

C18_Witness ==
    /\ Count("notify") = 1
    /\ Sent("notify")[1].uploaderPrincipal = "arn:aws:iam::123:user/alice"
    /\ Sent("notify")[1].sourceIp = "203.0.113.5"
    /\ Sent("notify")[1].fileName # ToLowerCase(Sent("notify")[1].fileName)
    /\ NotifySucceeded


\* The object that record i of the event names.
ObjectOf(i) ==
    <<event.Records[i].s3.bucket.name, KeyOf(event.Records[i].s3.object.key)>>

\* C19: an invocation handles the first record only: every scan, delete and
\* notification it sends is for the first record's object, and the object of
\* any later record, when it is a different object, stays in storage.
C19_OnlyFirstRecord ==
    /\ \A i \in DOMAIN calls :
          /\ calls[i].op = "scan" => <<calls[i].bucket, calls[i].key>> = ObjectOf(1)
          /\ calls[i].op = "delete" => <<calls[i].Bucket, calls[i].Key>> = ObjectOf(1)
          /\ calls[i].op = "notify" => <<calls[i].bucket, calls[i].fileName>> = ObjectOf(1)
    /\ Count("scan") <= 1
    /\ \A j \in 2..Len(event.Records) :
          ObjectOf(j) # ObjectOf(1) => ObjectOf(j) \in objects

C19_Witness ==
    /\ Len(event.Records) = 2
    /\ ObjectOf(2) # ObjectOf(1)
    /\ scanWithCrowdstrike(ObjectOf(2)[1], ObjectOf(2)[2]).isMalicious
    /\ NotifySucceeded
    /\ delivery = MaxDeliveries
    /\ pc = "Returned"


\* Processing the response fails at event i, before any upload of the object
\* has been accepted, and a later event of the list is an upload of the
\* object that could have been accepted.
FailsBeforeLaterUpload(resp) ==
    \E i \in DOMAIN resp.Events :
        /\ ProcessingFails(resp.Events[i])
        /\ \A j \in 1..(i - 1) : ~IsUploadOfObject(resp.Events[j])
        /\ \E h \in (i + 1)..Len(resp.Events) :
              IsUploadOfObject(resp.Events[h]) /\ resp.Events[h].userIdentity.present

\* C20: when processing a returned audit event fails before an upload of
\* (bucket, key) has been accepted, the search ends: the identity is the
\* sentinel even though a later event of the list matches, the failure is
\* logged, and the run goes on to the delete.
C20_FailureEndsSearch ==
    (LookupSettled /\ FailsBeforeLaterUpload(LookupReply)) =>
        /\ uploadDetails = SentinelIdentity
        /\ uploadDetails # TakenFrom(FirstUpload(LookupReply))
        /\ \E i \in DOMAIN logged :
              /\ logged[i].by = "getUploadDetailsFromCloudTrail"
              /\ logged[i].error \in {"SyntaxError", "TypeError"}
        /\ Count("delete") = 1
        /\ OnlyLaterFailures

C20_Witness ==
    /\ LookupSettled
    /\ Len(LookupReply.Events) = 2
    /\ ~LookupReply.Events[1].parses
    /\ IsUploadOfObject(LookupReply.Events[2])
    /\ LookupReply.Events[2].userIdentity.arn = "arn:aws:iam::123:user/alice"
    /\ uploadDetails = SentinelIdentity
    /\ DeleteSucceeded


\* The invocation has ended: it returned a result or threw an error.
Terminal == pc \in {"Returned", "Thrown"}

\* The terminal state of the run, in the specification's names.
Outcome ==
    IF pc = "Returned" /\ result.body.status = "Clean" THEN "Clean"
    ELSE IF pc = "Returned" /\ result.body.status = "Malicious" THEN "Remediated"
    ELSE IF pc = "Thrown" THEN "Aborted"
    ELSE "Running"

\* A run has a result or an error only when it has ended, and then exactly
\* one of the two.
OneOutcome ==
    /\ pc = "Returned" => (thrown = "none" /\ result # NoResult
                            /\ Outcome \in {"Clean", "Remediated"})
    /\ pc = "Thrown" => (thrown # "none" /\ result = NoResult)
    /\ ~Terminal => (thrown = "none" /\ result = NoResult)

\* An ended run changes nothing any more; the only step from it is the
\* start of another invocation.
TerminalIsFinal ==
    Terminal =>
        \/ UNCHANGED <<pc, result, thrown, calls, replies, logged, objects>>
        \/ (delivery' = delivery + 1 /\ pc' = "Start")

\* C17: when every request eventually resolves or rejects, a run that has
\* started eventually ends, returned (Clean or Remediated) or thrown
\* (Aborted); it ends in exactly one of these and does not leave it.
C17_RunEndsInOneTerminalState ==
    /\ []OneOutcome
    /\ [][TerminalIsFinal]_vars
    /\ ~Terminal ~> Terminal

C17_Witness ==
    /\ delivery = MaxDeliveries
    /\ Outcome = "Aborted"
    /\ DeleteFailed


\* The encoded form of every stored key.
EncodedKeyOf == [s \in StoredKeys |-> EncodeKey(s)]

\* C11: decoding inverts the encoding of the upload event: for every stored
\* key, the key the handler decodes from the event is the stored key, and it
\* is that key the scan, the delete and the notification are sent for; the
\* delete removes the stored object.
C11_DecodingInvertsEncoding ==
    \A s \in StoredKeys :
        EncodedKeyOf[s] = TheRecord.s3.object.key =>
            /\ pc # "Start" => key = s
            /\ \A i \in DOMAIN calls :
                  /\ calls[i].op = "scan" => calls[i].key = s
                  /\ calls[i].op = "delete" => calls[i].Key = s
                  /\ calls[i].op = "notify" => calls[i].fileName = s
            /\ thrown # "URIError"
            /\ DeleteSucceeded <=> <<TheRecord.s3.bucket.name, s>> \notin objects

C11_Witness ==
    /\ \E s \in StoredKeys :
          /\ EncodedKeyOf[s] = TheRecord.s3.object.key
          /\ Len(s) >= 2 /\ s[1] = "+" /\ s[2] = " "
          /\ key = s
    /\ DeleteSucceeded
    /\ pc = "Returned"


\* What an invocation r does when it runs alone, as a function of its own
\* event and of what its own requests settled with.
AloneBucket(r) == r.event.Records[1].s3.bucket.name
AloneKey(r) == DecodeKey(r.event.Records[1].s3.object.key)
AloneTime(r) == r.event.Records[1].eventTime
AloneVerdict(r) == scanWithCrowdstrike(AloneBucket(r), AloneKey(r))
AloneLookup(r) ==
    getUploadDetailsFromCloudTrail(r.replies[2].response, AloneBucket(r), AloneKey(r),
                                   AloneTime(r))
AloneScanned(r) ==
    Len(r.replies) >= 1 /\ r.replies[1].status = "ok" /\ AloneVerdict(r).isMalicious
AloneCorrelated(r) ==
    AloneScanned(r) /\ Len(r.replies) >= 2 /\ AloneLookup(r).kind # "throw"
AloneDeleted(r) ==
    AloneCorrelated(r) /\ Len(r.replies) >= 3 /\ r.replies[3].status = "ok"
AloneNotified(r) ==
    AloneDeleted(r) /\ Len(r.replies) >= 4 /\ r.replies[4].status = "ok"

AloneCalls(r) ==
    IF r.pc = "Start" THEN <<>>
    ELSE <<[op |-> "scan", bucket |-> AloneBucket(r), key |-> AloneKey(r)]>>
         \o (IF AloneScanned(r) THEN <<LookupEventsCommand(AloneTime(r))>> ELSE <<>>)
         \o (IF AloneCorrelated(r)
             THEN <<DeleteObjectCommand(AloneBucket(r), AloneKey(r))>> ELSE <<>>)
         \o (IF AloneDeleted(r)
             THEN <<SendEmailCommand(AloneBucket(r), AloneKey(r), AloneVerdict(r),
                                     AloneLookup(r).value)>>
             ELSE <<>>)

\* Where the invocation stands after these replies, and the error it has
\* rejected with.
AlonePc(r) ==
    LET n == Len(r.replies)
    IN  CASE n = 0 -> IF r.calls = <<>> THEN "Start" ELSE "Scanning"
          [] n = 1 -> IF r.replies[1].status # "ok" THEN "Thrown"
                      ELSE IF AloneScanned(r) THEN "Correlating" ELSE "Returned"
          [] n = 2 -> IF AloneCorrelated(r) THEN "Deleting" ELSE "Thrown"
          [] n = 3 -> IF AloneDeleted(r) THEN "Notifying" ELSE "Thrown"
          [] OTHER -> IF AloneNotified(r) THEN "Returned" ELSE "Thrown"

AloneThrown(r) ==
    LET n == Len(r.replies)
    IN  IF AlonePc(r) # "Thrown" THEN "none"
        ELSE IF n = 2 THEN AloneLookup(r).error ELSE r.replies[n].status

AloneResult(r) ==
    IF AlonePc(r) = "Returned" THEN HandlerResult(AloneVerdict(r)) ELSE NoResult

\* The object of r was stored when r started; alone, it is in storage until
\* r's own delete has succeeded, and no delete of r finds it absent.
AloneStorage(r) ==
    /\ <<AloneBucket(r), AloneKey(r)>> \in objects <=> ~AloneDeleted(r)
    /\ Len(r.replies) >= 3 => ~r.replies[3].absent /\ r.replies[3].status # "NotFound"

AsAlone(r) ==
    /\ Len(r.replies) <= 4
    /\ r.calls = AloneCalls(r)
    /\ r.pc = AlonePc(r)
    /\ r.thrown = AloneThrown(r)
    /\ r.result = AloneResult(r)
    /\ AloneCorrelated(r) => r.uploadDetails = AloneLookup(r).value
    /\ AloneStorage(r)

\* C15: two invocations for different objects, interleaved at their awaits
\* in every possible way: the requests each has sent, where it stands, the
\* value it returned or the error it threw, and the state of its object in
\* storage are those of the invocation running alone on its own event with
\* the same replies; nothing of the other invocation enters them.
C15_RunsAreIndependent ==
    /\ AloneKey(ThisRun) # AloneKey(other)
    /\ AsAlone(ThisRun)
    /\ AsAlone(other)

\* Both invocations have deleted their object and await their notification;
\* each reports the uploader of its own object.
C15_Witness ==
    /\ pc = "Notifying" /\ other.pc = "Notifying"
    /\ objects = {}
    /\ key = Needle /\ uploadDetails.user = AliceArn
    /\ other.uploadDetails.user = BobArn
    /\ Len(replies[2].response.Events) = 2

====
